---- MODULE Spec2Model ----
(***************************************************************************)
(* Real-time question/answer correlation engine of slack-qa-bot:           *)
(* RealtimeQAMonitor (src/realtime_monitor.py) over the Message Store      *)
(* backends DatabaseManager, CloudDatabaseManager and                      *)
(* ProductionDatabaseManager (src/database/*.py).                          *)
(*                                                                         *)
(* Conventions: confidences and similarity scores are percentages          *)
(* (0.6 -> 60); a message_ts is an integer number of hours and is both the *)
(* message identity and, through datetime.fromtimestamp(float(ts)), the    *)
(* message time (0 is the first hour); id 0 stands for None / NULL.       *)
(***************************************************************************)
EXTENDS Integers, Sequences, FiniteSets, TLC

\* ---------------------------------------------------------------- bounds
MaxEvents == 2          \* events the ingestion source delivers in one run
MaxQueue  == 2          \* length the processing queue may reach
MaxClock  == 242        \* last hour the clock reaches
MaxCalls  == 3          \* Store API calls of one client run (SpecStore)
MaxBuffered == 12       \* messages appended to the context buffers (SpecBuffer)

\* ------------------------------------------------------ program constants
ANSWER_DETECTION_THRESHOLD   == 60
QUESTION_DETECTION_THRESHOLD == 70
MESSAGE_BUFFER_SIZE          == 10
CONTEXT_MESSAGES             == 5
CLUSTER_LOOKBACK_HOURS       == 72
SIMILARITY_THRESHOLD         == 80
SIMILAR_CANDIDATE_LIMIT      == 10

\* ------------------------------------------------------------ input sets
Channels  == {"c1", "c2"}
Users     == {"u1"}
Texts     == {"t1", "t2"}
Backends  == {"sqlite", "cloud", "postgres", "prodsqlite"}
TickSteps == {1, 240}

None    == 0          \* Python None / SQL NULL where an id is expected
NoHours == 0 - 1      \* hours=None: no lookback bound
Missing == 0 - 1      \* a key the Oracle's JSON answer does not carry

VARIABLES
    backend,            \* the Store class behind db_manager
    questions,          \* table questions
    answers,            \* table answers
    qa_pairs,           \* table qa_pairs
    processed_messages, \* table processed_messages
    seqs,               \* id generators of the three id-bearing tables
    processing_queue,   \* RealtimeQAMonitor.processing_queue
    message_buffers,    \* RealtimeQAMonitor.message_buffers
    user_cache,         \* RealtimeQAMonitor.user_cache
    running,            \* RealtimeQAMonitor.running
    worker,             \* position of the worker thread and its message
    now,                \* wall clock, in hours
    events,             \* number of events delivered so far
    acks,               \* number of acknowledgements sent upstream
    last,               \* observation of the worker's last iteration
    call                \* observation of the last direct Store call

vars == <<backend, questions, answers, qa_pairs, processed_messages, seqs,
          processing_queue, message_buffers, user_cache, running, worker,
          now, events, acks, last, call>>

tables == <<questions, answers, qa_pairs, processed_messages, seqs>>

\* The Store as one value, so that a handler can thread it through its calls.
Db == [questions |-> questions, answers |-> answers, qa_pairs |-> qa_pairs,
       processed_messages |-> processed_messages, seqs |-> seqs]

EmptyDb == [questions |-> {}, answers |-> {}, qa_pairs |-> {},
            processed_messages |-> {},
            seqs |-> [questions |-> 0, answers |-> 0, qa_pairs |-> 0]]

\* The larger of the two in place of the smaller.
Min_max(a, b) == IF a <= b THEN b ELSE a

Min(a, b) == IF a <= b THEN a ELSE b

\* ------------------------------------------------------------ the Store

\* Rows as the INSERT statements build them.
QuestionRow(id, d) ==
    [id |-> id, text |-> d.text, user_id |-> d.user_id,
     channel_id |-> d.channel_id, timestamp |-> d.timestamp,
     message_ts |-> d.message_ts, confidence_score |-> d.confidence_score,
     clustered_questions |-> <<>>]

AnswerRow(id, d, question_id) ==
    [id |-> id, question_id |-> question_id, text |-> d.text,
     user_id |-> d.user_id, channel_id |-> d.channel_id,
     timestamp |-> d.timestamp, message_ts |-> d.message_ts,
     confidence_score |-> d.confidence_score]

QAPairRow(id, d) ==
    [id |-> id, question |-> d.question, answer |-> d.answer,
     channel |-> d.channel, confidence_score |-> d.confidence_score]

\* store_question: returns the new Store and the returned identity.
\*   sqlite     INSERT OR REPLACE: a row with the same message_ts is deleted
\*              and a fresh row with the next AUTOINCREMENT id is inserted.
\*   cloud      plain insert; on IntegrityError the existing row's id.
\*   postgres   ON CONFLICT (message_ts) DO NOTHING RETURNING id: no row is
\*              returned on a conflict (None); the SERIAL value is consumed.
\*   prodsqlite the fallback is "pass".
store_question(db, b, d) ==
    LET same == {q \in db.questions : q.message_ts = d.message_ts}
        id   == db.seqs.questions + 1
        bump == [db.seqs EXCEPT !.questions = id]
    IN  CASE b = "sqlite" ->
               [db  |-> [db EXCEPT !.questions = (@ \ same) \cup {QuestionRow(id, d)},
                                   !.seqs = bump],
                ret |-> id]
          [] b = "cloud" ->
               IF same = {}
               THEN [db  |-> [db EXCEPT !.questions = @ \cup {QuestionRow(id, d)},
                                        !.seqs = bump],
                     ret |-> id]
               ELSE [db |-> db, ret |-> (CHOOSE q \in same : TRUE).id]
          [] b = "postgres" ->
               IF same = {}
               THEN [db  |-> [db EXCEPT !.questions = @ \cup {QuestionRow(id, d)},
                                        !.seqs = bump],
                     ret |-> id]
               ELSE [db |-> [db EXCEPT !.seqs = bump], ret |-> None]
          [] OTHER -> [db |-> db, ret |-> None]

\* store_answer: the same four shapes, keyed on answers.message_ts.
store_answer(db, b, d, question_id) ==
    LET same == {a \in db.answers : a.message_ts = d.message_ts}
        id   == db.seqs.answers + 1
        bump == [db.seqs EXCEPT !.answers = id]
    IN  CASE b = "sqlite" ->
               [db  |-> [db EXCEPT !.answers = (@ \ same) \cup {AnswerRow(id, d, question_id)},
                                   !.seqs = bump],
                ret |-> id]
          [] b = "cloud" ->
               IF same = {}
               THEN [db  |-> [db EXCEPT !.answers = @ \cup {AnswerRow(id, d, question_id)},
                                        !.seqs = bump],
                     ret |-> id]
               ELSE [db |-> db, ret |-> (CHOOSE a \in same : TRUE).id]
          [] b = "postgres" ->
               IF same = {}
               THEN [db  |-> [db EXCEPT !.answers = @ \cup {AnswerRow(id, d, question_id)},
                                        !.seqs = bump],
                     ret |-> id]
               ELSE [db |-> [db EXCEPT !.seqs = bump], ret |-> None]
          [] OTHER -> [db |-> db, ret |-> None]

\* store_qa_pair: sqlite, postgres and the production SQLite fallback carry
\* UNIQUE(question, answer, channel) and ignore a conflicting insert; the
\* cloud model declares no such constraint, so its insert always succeeds.
store_qa_pair(db, b, d) ==
    LET same == {p \in db.qa_pairs : /\ p.question = d.question
                                     /\ p.answer = d.answer
                                     /\ p.channel = d.channel}
        id   == db.seqs.qa_pairs + 1
        bump == [db.seqs EXCEPT !.qa_pairs = id]
        ins  == [db EXCEPT !.qa_pairs = @ \cup {QAPairRow(id, d)}, !.seqs = bump]
    IN  CASE b = "cloud" -> [db |-> ins, ret |-> id]
          [] b = "postgres" ->
               IF same = {} THEN [db |-> ins, ret |-> id]
               ELSE [db |-> [db EXCEPT !.seqs = bump], ret |-> None]
          [] OTHER ->
               IF same = {} THEN [db |-> ins, ret |-> id]
               ELSE [db |-> db, ret |-> None]

\* The ledger gate left open: the query never finds the row.
is_message_processed_open(db, b, message_ts) == FALSE

\* is_message_processed: a point query on processed_messages; the production
\* SQLite fallback answers False whatever the table holds.
is_message_processed(db, b, message_ts) ==
    IF b = "prodsqlite" THEN FALSE
    ELSE \E p \in db.processed_messages : p.message_ts = message_ts

\* mark_message_processed: insert-or-ignore on message_ts; the production
\* SQLite fallback is "pass".
mark_message_processed(db, b, message_ts, channel_id) ==
    IF b = "prodsqlite" THEN db
    ELSE IF \E p \in db.processed_messages : p.message_ts = message_ts
         THEN db
         ELSE [db EXCEPT !.processed_messages =
                   @ \cup {[message_ts |-> message_ts, channel_id |-> channel_id]}]

\* ORDER BY q.timestamp DESC
RECURSIVE OrderByTimestampDesc(_)
OrderByTimestampDesc(S) ==
    IF S = {} THEN <<>>
    ELSE LET top == CHOOSE r \in S : \A o \in S :
                        \/ r.timestamp > o.timestamp
                        \/ (r.timestamp = o.timestamp /\ r.id >= o.id)
         IN  <<top>> \o OrderByTimestampDesc(S \ {top})

\* The open-question query without its channel condition.
Unanswered_any_channel(db, channel_id) ==
    {q \in db.questions : ~ \E a \in db.answers : a.question_id = q.id}

\* questions q LEFT JOIN answers a ON q.id = a.question_id
\* WHERE q.channel_id = ? AND a.id IS NULL
Unanswered(db, channel_id) ==
    {q \in db.questions : /\ q.channel_id = channel_id
                          /\ ~ \E a \in db.answers : a.question_id = q.id}

\* The query without "a.id IS NULL": answered Questions are returned too.
find_recent_questions_all(db, b, channel_id, hours, t) ==
    LET every   == {q \in db.questions : q.channel_id = channel_id}
        bounded == {q \in every : q.timestamp > t - hours}
    IN  IF hours = NoHours
        THEN CASE b = "sqlite" -> [raised |-> TRUE, rows |-> <<>>]
               [] b = "cloud"  -> [raised |-> FALSE, rows |-> <<>>]
               [] OTHER        -> [raised |-> FALSE, rows |-> OrderByTimestampDesc(every)]
        ELSE [raised |-> FALSE, rows |-> OrderByTimestampDesc(bounded)]

\* find_recent_questions(channel_id, hours) read at clock t; hours = NoHours is
\* the argument the answer path passes.
\*   sqlite     computes timedelta(hours=hours) unconditionally: TypeError
\*              for None, which the method does not catch.
\*   cloud      the same expression inside try/except: returns [].
\*   postgres, prodsqlite   branch on "hours is None": every unanswered row.
find_recent_questions(db, b, channel_id, hours, t) ==
    LET bounded == {q \in Unanswered(db, channel_id) : q.timestamp > t - hours}
    IN  IF hours = NoHours
        THEN CASE b = "sqlite" -> [raised |-> TRUE, rows |-> <<>>]
               [] b = "cloud"  -> [raised |-> FALSE, rows |-> <<>>]
               [] OTHER        -> [raised |-> FALSE,
                                   rows |-> OrderByTimestampDesc(Unanswered(db, channel_id))]
        ELSE [raised |-> FALSE, rows |-> OrderByTimestampDesc(bounded)]

\* ---------------------------------------------------------- the Oracle
\* Answers of OpenAIAnalyzer as the Correlator sees them.  An API error or
\* a non-JSON answer is already the negative result; a JSON answer that
\* lacks "confidence" is returned as parsed.
QuestionResults ==
    {[is_question |-> FALSE, confidence |-> 0],
     [is_question |-> TRUE,  confidence |-> 50],
     [is_question |-> TRUE,  confidence |-> 90],
     [is_question |-> TRUE,  confidence |-> Missing]}

AnswerResults ==
    {[is_answer |-> FALSE, confidence |-> 95],
     [is_answer |-> TRUE,  confidence |-> ANSWER_DETECTION_THRESHOLD - 1],
     [is_answer |-> TRUE,  confidence |-> ANSWER_DETECTION_THRESHOLD]}

\* is_answer_to_question, as a stub keyed on the question text
Verdicts == [Texts -> AnswerResults]

\* find_similar_question: the id is whatever the model wrote into its JSON
SimilarResults(ids) ==
    {[is_similar |-> FALSE, similarity_score |-> 0, question_id |-> None]}
    \cup [is_similar : {TRUE},
          similarity_score : {SIMILARITY_THRESHOLD - 1, SIMILARITY_THRESHOLD},
          question_id : ids \cup {None}]

\* The answers find_similar_question can get for message m: none is asked
\* for unless m was classified as a question and candidates exist.
SimilarAnswers(db, b, m, qres, t) ==
    IF /\ qres.is_question
       /\ qres.confidence # Missing
       /\ find_recent_questions(db, b, m.channel_id, CLUSTER_LOOKBACK_HOURS, t).rows # <<>>
    THEN SimilarResults({q.id : q \in db.questions})
    ELSE {[is_similar |-> FALSE, similarity_score |-> 0, question_id |-> None]}

\* The verdicts is_answer_to_question can give while message m is handled:
\* one is asked for per candidate question, so only the texts of the
\* channel's questions (m's own included once it is classified a question)
\* carry a choice.
VerdictsFor(db, m, qres) ==
    LET asked == {q.text : q \in {r \in db.questions : r.channel_id = m.channel_id}}
                     \cup (IF qres.is_question THEN {m.text} ELSE {})
        none  == [is_answer |-> FALSE, confidence |-> 95]
    IN  {v \in Verdicts : \A x \in Texts \ asked : v[x] = none}

\* ------------------------------------------------------- the Correlator
NoMsg == [channel_id |-> "", user_id |-> "", text |-> "", ts |-> None]

\* first n / last n elements of a sequence (list[:n], list[-n:])
Prefix(s, n) == IF Len(s) <= n THEN s ELSE SubSeq(s, 1, n)
Suffix(s, n) == IF Len(s) <= n THEN s ELSE SubSeq(s, Len(s) - n + 1, Len(s))

\* A plain list in place of the bounded deque: nothing is ever evicted.
BufferAppend_unbounded(buf, m) == Append(buf, m)

\* deque(maxlen=MESSAGE_BUFFER_SIZE).append
BufferAppend(buf, m) == Suffix(Append(buf, m), MESSAGE_BUFFER_SIZE)

\* check_for_answers: the context handed to the answer classifier is built
\* from list(self.message_buffers[channel_id])[-5:]
context_messages(bufs, channel_id) == Suffix(bufs[channel_id], CONTEXT_MESSAGES)

\* get_user_name: the cached name, else the name users_info returns, else
\* the synthetic "User" + last four characters of the id; either way the
\* user is cached afterwards.  The cache is kept as the set of cached users.
get_user_name(cache, user_id) == cache \cup {user_id}

\* find_similar_question: candidates are the unanswered questions of the
\* channel within the 72-hour lookback; the Oracle is asked only when there
\* are any, and sees the first ten of them.
find_similar_question(db, b, channel_id, sim, t) ==
    LET existing == find_recent_questions(db, b, channel_id, CLUSTER_LOOKBACK_HOURS, t).rows
    IN  [asked      |-> existing # <<>>,
         candidates |-> Prefix(existing, SIMILAR_CANDIDATE_LIMIT),
         id         |-> IF /\ existing # <<>>
                           /\ sim.is_similar
                           /\ sim.similarity_score >= SIMILARITY_THRESHOLD
                        THEN sim.question_id ELSE None]

\* update_clustered_question: its first statement calls
\* db_manager.get_question_by_id, which no Store class defines (nor
\* update_question); the AttributeError is swallowed by the method's own
\* try/except, so the Store is left as it was.
update_clustered_question(db, b, question_id, m) == db

\* The loop of check_for_answers over the snapshot list of questions.
RECURSIVE AnswerLoop(_, _, _, _, _)
AnswerLoop(db, b, qs, m, verdict) ==
    IF qs = <<>> THEN db
    ELSE LET q  == Head(qs)
             v  == verdict[q.text]
             ad == [text |-> m.text, user_id |-> m.user_id,
                    channel_id |-> m.channel_id, timestamp |-> m.ts,
                    message_ts |-> m.ts, confidence_score |-> v.confidence]
             qp == [question |-> q.text, answer |-> m.text,
                    channel |-> m.channel_id,
                    confidence_score |-> Min(q.confidence_score, v.confidence)]
         IN  IF v.is_answer /\ v.confidence >= ANSWER_DETECTION_THRESHOLD
             THEN AnswerLoop(store_qa_pair(store_answer(db, b, ad, q.id).db, b, qp).db,
                             b, Tail(qs), m, verdict)
             ELSE AnswerLoop(db, b, Tail(qs), m, verdict)

\* check_for_answers
check_for_answers(db, b, m, verdict, t) ==
    LET recent == find_recent_questions(db, b, m.channel_id, NoHours, t)
    IN  IF recent.raised
        THEN [db |-> db, raised |-> TRUE, asked |-> <<>>]
        ELSE [db     |-> AnswerLoop(db, b, recent.rows, m, verdict),
              raised |-> FALSE,
              asked  |-> [i \in 1..Len(recent.rows) |-> recent.rows[i].id]]

\* process_single_message.  The result carries the Store, the buffers and
\* the cache as the handler leaves them, whether it raised, and what the
\* iteration did (for the properties below).
process_single_message(db, b, bufs, cache, m, qres, sim, verdict, t) ==
    LET cache1 == get_user_name(cache, m.user_id)
        bufs1  == [bufs EXCEPT ![m.channel_id] = BufferAppend(@, m)]
        keyerr == qres.is_question /\ qres.confidence = Missing
        fs     == find_similar_question(db, b, m.channel_id, sim, t)
        qd     == [text |-> m.text, user_id |-> m.user_id,
                   channel_id |-> m.channel_id, timestamp |-> m.ts,
                   message_ts |-> m.ts, confidence_score |-> qres.confidence]
        dbq    == IF ~ qres.is_question \/ keyerr THEN db
                  ELSE IF fs.id # None
                       THEN update_clustered_question(db, b, fs.id, m)
                       ELSE store_question(db, b, qd).db
        chk    == IF keyerr THEN [db |-> db, raised |-> TRUE, asked |-> <<>>]
                  ELSE check_for_answers(dbq, b, m, verdict, t)
    IN  [db     |-> chk.db,
         bufs   |-> bufs1,
         cache  |-> cache1,
         raised |-> chk.raised,
         obs    |-> [msg          |-> m,
                     outcome      |-> IF chk.raised THEN "raised" ELSE "done",
                     is_question  |-> qres.is_question,
                     malformed    |-> qres.confidence = Missing,
                     confidence   |-> qres.confidence,
                     similar_id   |-> IF qres.is_question /\ ~ keyerr THEN fs.id ELSE None,
                     accepted     |-> {q.id : q \in {r \in Unanswered(dbq, m.channel_id) :
                                          /\ verdict[r.text].is_answer
                                          /\ verdict[r.text].confidence >= ANSWER_DETECTION_THRESHOLD}},
                     asked        |-> chk.asked,
                     oracle_calls |-> 1 + (IF qres.is_question /\ ~ keyerr /\ fs.asked THEN 1 ELSE 0)
                                        + Len(chk.asked)]]

NoObs == [msg |-> NoMsg, outcome |-> "init", is_question |-> FALSE,
          malformed |-> FALSE, confidence |-> 0, similar_id |-> None, accepted |-> {}, asked |-> <<>>,
          oracle_calls |-> 0]

NoCall == [op |-> "none", message_ts |-> None, prior |-> {}, ret |-> None,
           rows_before |-> 0]

\* ---------------------------------------------------------------- Init
\* What an earlier run of the monitor left in the database: that run handled
\* one question message of channel c1 at hour 0 and stopped.
SeedMsg == [channel_id |-> "c1", user_id |-> "u1", text |-> "t1", ts |-> 0]

SeedDb(b) ==
    LET r == process_single_message(
                 EmptyDb, b, [c \in Channels |-> <<>>], {}, SeedMsg,
                 [is_question |-> TRUE, confidence |-> 90],
                 [is_similar |-> FALSE, similarity_score |-> 0, question_id |-> None],
                 [x \in Texts |-> [is_answer |-> FALSE, confidence |-> 95]], 0)
    IN  IF r.raised THEN r.db
        ELSE mark_message_processed(r.db, b, SeedMsg.ts, SeedMsg.channel_id)

\* The state after RealtimeQAMonitor.__init__: any of the Store classes over
\* a new database or over the one an earlier run left; buffers, cache and
\* queue are empty and the worker is not started.
Init ==
    /\ backend \in Backends
    /\ \E db0 \in {EmptyDb, SeedDb(backend)} :
         /\ questions = db0.questions
         /\ answers = db0.answers
         /\ qa_pairs = db0.qa_pairs
         /\ processed_messages = db0.processed_messages
         /\ seqs = db0.seqs
    /\ processing_queue = <<>>
    /\ message_buffers = [c \in Channels |-> <<>>]
    /\ user_cache = {}
    /\ running = FALSE
    /\ worker = [pc |-> "new", msg |-> NoMsg]
    /\ now = 0
    /\ events = 0
    /\ acks = 0
    /\ last = NoObs
    /\ call = NoCall

SetDb(db) ==
    /\ questions' = db.questions
    /\ answers' = db.answers
    /\ qa_pairs' = db.qa_pairs
    /\ processed_messages' = db.processed_messages
    /\ seqs' = db.seqs

\* start_monitoring with the worker thread created but never started: the
\* listener is registered and the socket connects, nothing runs the loop.
start_monitoring_no_thread ==
    /\ worker.pc = "new"
    /\ ~ running
    /\ running' = TRUE
    /\ UNCHANGED <<backend, tables, processing_queue, message_buffers,
                   user_cache, worker, now, events, acks, last, call>>

\* start_monitoring: running = True, the worker thread starts, the socket
\* connects.
start_monitoring ==
    /\ worker.pc = "new"
    /\ running' = TRUE
    /\ worker' = [worker EXCEPT !.pc = "idle"]
    /\ UNCHANGED <<backend, tables, processing_queue, message_buffers,
                   user_cache, now, events, acks, last, call>>

\* stop_monitoring: running = False, the socket disconnects, and the caller
\* waits up to five seconds for the worker thread to end (join(timeout=5)).
stop_monitoring ==
    /\ running
    /\ running' = FALSE
    /\ UNCHANGED <<backend, tables, processing_queue, message_buffers,
                   user_cache, worker, now, events, acks, last, call>>

\* Messages the ingestion source may deliver again: those still held by the
\* monitor (queued, with the worker, or in a context buffer).
Known ==
    {processing_queue[i] : i \in 1..Len(processing_queue)}
    \cup (IF worker.msg.ts = None THEN {} ELSE {worker.msg})
    \cup UNION {{message_buffers[c][i] : i \in 1..Len(message_buffers[c])} : c \in Channels}

\* The listener doing work of the Correlator inline: it also appends the
\* message to its channel's context buffer.
handle_message_event_inline ==
    /\ running
    /\ events < MaxEvents
    /\ Len(processing_queue) < MaxQueue
    /\ \E d \in TickSteps, c \in Channels, u \in Users, x \in Texts :
         LET m == [channel_id |-> c, user_id |-> u, text |-> x, ts |-> now + d] IN
         /\ now + d <= MaxClock
         /\ now' = now + d
         /\ processing_queue' = Append(processing_queue, m)
         /\ message_buffers' = [message_buffers EXCEPT ![c] = BufferAppend(@, m)]
    /\ events' = events + 1
    /\ acks' = acks + 1
    /\ UNCHANGED <<backend, tables, user_cache, running, worker, last, call>>

\* handle_message_event for a regular message: a new message, stamped with
\* the hour it is sent at (time has passed since the previous one), or a
\* redelivery of an earlier one.  The entry is appended to the queue and the
\* request is acknowledged.
handle_message_event ==
    /\ running
    /\ events < MaxEvents
    /\ Len(processing_queue) < MaxQueue
    /\ \/ \E d \in TickSteps, c \in Channels, u \in Users, x \in Texts :
            /\ now + d <= MaxClock
            /\ now' = now + d
            /\ processing_queue' = Append(processing_queue,
                   [channel_id |-> c, user_id |-> u, text |-> x, ts |-> now + d])
       \/ \E m \in Known :
            /\ processing_queue' = Append(processing_queue, m)
            /\ now' = now
    /\ events' = events + 1
    /\ acks' = acks + 1
    /\ UNCHANGED <<backend, tables, message_buffers, user_cache, running,
                   worker, last, call>>

\* handle_message_event for anything else (another request type, a message
\* with a subtype, a message with an empty field): acknowledged only.
handle_other_event ==
    /\ running
    /\ events < MaxEvents
    /\ events' = events + 1
    /\ acks' = acks + 1
    /\ UNCHANGED <<backend, tables, processing_queue, message_buffers,
                   user_cache, running, worker, now, last, call>>

\* The worker taking the newest entry (pop) instead of the oldest.
Dequeue_pop ==
    /\ worker.pc = "idle"
    /\ running
    /\ processing_queue # <<>>
    /\ worker' = [pc |-> "sleeping", msg |-> processing_queue[Len(processing_queue)]]
    /\ processing_queue' = SubSeq(processing_queue, 1, Len(processing_queue) - 1)
    /\ UNCHANGED <<backend, tables, message_buffers, user_cache, running,
                   now, events, acks, last, call>>

\* process_message_queue, first half of an iteration: popleft, then the
\* settle delay.
Dequeue ==
    /\ worker.pc = "idle"
    /\ running
    /\ processing_queue # <<>>
    /\ worker' = [pc |-> "sleeping", msg |-> Head(processing_queue)]
    /\ processing_queue' = Tail(processing_queue)
    /\ UNCHANGED <<backend, tables, message_buffers, user_cache, running,
                   now, events, acks, last, call>>

\* The second half of an iteration with the ledger write moved into a
\* "finally": it happens whether or not the handler raised.
Handle_finally ==
    /\ worker.pc = "sleeping"
    /\ LET m == worker.msg IN
       IF is_message_processed(Db, backend, m.ts)
       THEN /\ last' = [NoObs EXCEPT !.msg = m, !.outcome = "skipped"]
            /\ UNCHANGED <<tables, message_buffers, user_cache>>
       ELSE \E qres \in QuestionResults :
            \E verdict \in VerdictsFor(Db, m, qres) :
            \E sim \in SimilarAnswers(Db, backend, m, qres, now) :
              LET r == process_single_message(Db, backend, message_buffers, user_cache,
                                              m, qres, sim, verdict, now)
              IN  /\ SetDb(mark_message_processed(r.db, backend, m.ts, m.channel_id))
                  /\ message_buffers' = r.bufs
                  /\ user_cache' = r.cache
                  /\ last' = r.obs
    /\ worker' = [pc |-> "idle", msg |-> NoMsg]
    /\ UNCHANGED <<backend, processing_queue, running, now, events, acks, call>>

\* process_message_queue, second half: the ledger gate, the handler, the
\* ledger write; an exception skips the rest of the iteration.
Handle ==
    /\ worker.pc = "sleeping"
    /\ LET m == worker.msg IN
       IF is_message_processed(Db, backend, m.ts)
       THEN /\ last' = [NoObs EXCEPT !.msg = m, !.outcome = "skipped"]
            /\ UNCHANGED <<tables, message_buffers, user_cache>>
       ELSE \E qres \in QuestionResults :
            \E verdict \in VerdictsFor(Db, m, qres) :
            \E sim \in SimilarAnswers(Db, backend, m, qres, now) :
              LET r == process_single_message(Db, backend, message_buffers, user_cache,
                                              m, qres, sim, verdict, now)
              IN  /\ SetDb(IF r.raised THEN r.db
                           ELSE mark_message_processed(r.db, backend, m.ts, m.channel_id))
                  /\ message_buffers' = r.bufs
                  /\ user_cache' = r.cache
                  /\ last' = r.obs
    /\ worker' = [pc |-> "idle", msg |-> NoMsg]
    /\ UNCHANGED <<backend, processing_queue, running, now, events, acks, call>>

\* process_message_queue: "while self.running" fails and the thread ends,
\* whatever the queue still holds.
WorkerExit ==
    /\ worker.pc = "idle"
    /\ ~ running
    /\ worker' = [worker EXCEPT !.pc = "exited"]
    /\ UNCHANGED <<backend, tables, processing_queue, message_buffers,
                   user_cache, running, now, events, acks, last, call>>

Next ==
    \/ start_monitoring
    \/ handle_message_event
    \/ handle_other_event
    \/ Dequeue
    \/ Handle

Spec == Init /\ [][Next]_vars

\* The worker is a daemon thread started by start_monitoring and scheduled
\* by the interpreter alongside the listener: with every Oracle and Store
\* call returning, an iteration it can take, it eventually takes.
SpecLive ==
    /\ Init
    /\ [][Next]_vars
    /\ WF_vars(Dequeue)
    /\ WF_vars(Handle)

\* ------------------------------------------------- direct Store clients
\* The Store API as the tests, the examples and the batch extractor call it,
\* on any backend.  call records the operation, the rows that held its key
\* before it ran, the row count of its table before it ran, and its result.
QuestionConfidences == {50, 90}

call_store_question ==
    /\ events < MaxCalls
    /\ \E ts \in 1..2, c \in Channels, u \in Users, x \in Texts,
          k \in QuestionConfidences :
         LET d == [text |-> x, user_id |-> u, channel_id |-> c, timestamp |-> ts,
                   message_ts |-> ts, confidence_score |-> k]
             r == store_question(Db, backend, d)
         IN  /\ SetDb(r.db)
             /\ call' = [op |-> "store_question", message_ts |-> ts,
                         prior |-> {q \in questions : q.message_ts = ts},
                         ret |-> r.ret, rows_before |-> Cardinality(questions)]
    /\ events' = events + 1
    /\ UNCHANGED <<backend, processing_queue, message_buffers, user_cache,
                   running, worker, now, acks, last>>

call_store_answer ==
    /\ events < MaxCalls
    /\ \E ts \in 1..2, c \in Channels, u \in Users, x \in Texts,
          qid \in {q.id : q \in questions} \cup {None} :
         LET d == [text |-> x, user_id |-> u, channel_id |-> c, timestamp |-> ts,
                   message_ts |-> ts, confidence_score |-> ANSWER_DETECTION_THRESHOLD]
             r == store_answer(Db, backend, d, qid)
         IN  /\ SetDb(r.db)
             /\ call' = [op |-> "store_answer", message_ts |-> ts,
                         prior |-> {a \in answers : a.message_ts = ts},
                         ret |-> r.ret, rows_before |-> Cardinality(answers)]
    /\ events' = events + 1
    /\ UNCHANGED <<backend, processing_queue, message_buffers, user_cache,
                   running, worker, now, acks, last>>

call_store_qa_pair ==
    /\ events < MaxCalls
    /\ \E c \in Channels, x \in Texts, y \in Texts, k \in QuestionConfidences :
         LET d == [question |-> x, answer |-> y, channel |-> c,
                   confidence_score |-> k]
             r == store_qa_pair(Db, backend, d)
         IN  /\ SetDb(r.db)
             /\ call' = [op |-> "store_qa_pair", message_ts |-> None,
                         prior |-> {p \in qa_pairs : /\ p.question = x
                                                     /\ p.answer = y
                                                     /\ p.channel = c},
                         ret |-> r.ret, rows_before |-> Cardinality(qa_pairs)]
    /\ events' = events + 1
    /\ UNCHANGED <<backend, processing_queue, message_buffers, user_cache,
                   running, worker, now, acks, last>>

call_mark_message_processed ==
    /\ events < MaxCalls
    /\ \E ts \in 1..2, c \in Channels :
         /\ SetDb(mark_message_processed(Db, backend, ts, c))
         /\ call' = [op |-> "mark_message_processed", message_ts |-> ts,
                     prior |-> {p \in processed_messages : p.message_ts = ts},
                     ret |-> None,
                     rows_before |-> Cardinality(processed_messages)]
    /\ events' = events + 1
    /\ UNCHANGED <<backend, processing_queue, message_buffers, user_cache,
                   running, worker, now, acks, last>>

NextStore ==
    \/ call_store_question
    \/ call_store_answer
    \/ call_store_qa_pair
    \/ call_mark_message_processed

SpecStore == Init /\ [][NextStore]_vars

\* The monitor with its shutdown path.
NextShutdown ==
    \/ Next
    \/ stop_monitoring
    \/ WorkerExit

SpecShutdown == Init /\ [][NextShutdown]_vars

\* ---------------------------------------------------- context buffers
\* The buffer step of process_single_message on its own, for a long run of
\* messages: message_buffers[channel_id].append(message_data), each message
\* with the next hour as its ts.
append_to_buffer ==
    /\ events < MaxBuffered
    /\ now < MaxClock
    /\ \E c \in Channels :
         LET m == [channel_id |-> c, user_id |-> "u1", text |-> "t1", ts |-> now + 1]
         IN  message_buffers' = [message_buffers EXCEPT ![c] = BufferAppend(@, m)]
    /\ now' = now + 1
    /\ events' = events + 1
    /\ UNCHANGED <<backend, tables, processing_queue, user_cache, running,
                   worker, acks, last, call>>

NextBuffer ==
    \/ append_to_buffer

SpecBuffer == Init /\ [][NextBuffer]_vars

\* ------------------------------------------------ the Store unavailable
\* The worker without the handler around its loop body: an exception ends
\* the thread.
WorkerAfter_uncaught(raised) == IF raised THEN "exited" ELSE "idle"

\* process_message_queue: "except Exception" prints, sleeps a second and the
\* loop goes on, so the thread is back at the loop test whether or not the
\* iteration raised.
WorkerAfter(raised) == "idle"

\* A worker iteration during which the database cannot be reached, so that
\* every Store call of the iteration fails.
\*   sqlite   DatabaseManager catches nothing: is_message_processed raises
\*            and the rest of the iteration is skipped.
\*   others   every method catches the error and returns its failure value
\*            (False, [], None): the gate is passed, the handler runs with
\*            no candidates and stores nothing, the ledger write is dropped.
HandleFault ==
    /\ worker.pc = "sleeping"
    /\ LET m == worker.msg IN
       IF backend = "sqlite"
       THEN /\ last' = [NoObs EXCEPT !.msg = m, !.outcome = "raised"]
            /\ worker' = [pc |-> WorkerAfter(TRUE), msg |-> NoMsg]
            /\ UNCHANGED <<message_buffers, user_cache>>
       ELSE \E qres \in QuestionResults :
              LET keyerr == qres.is_question /\ qres.confidence = Missing IN
              /\ message_buffers' = [message_buffers EXCEPT
                                        ![m.channel_id] = BufferAppend(@, m)]
              /\ user_cache' = get_user_name(user_cache, m.user_id)
              /\ last' = [NoObs EXCEPT !.msg = m,
                                       !.outcome = IF keyerr THEN "raised" ELSE "done",
                                       !.is_question = qres.is_question,
                                       !.malformed = (qres.confidence = Missing),
                                       !.confidence = qres.confidence,
                                       !.oracle_calls = 1]
              /\ worker' = [pc |-> WorkerAfter(keyerr), msg |-> NoMsg]
    /\ UNCHANGED <<backend, tables, processing_queue, running, now, events,
                   acks, call>>

NextFault ==
    \/ Next
    \/ HandleFault

\* The worker is a thread of its own: an iteration it can take, it takes.
SpecFault ==
    /\ Init
    /\ [][NextFault]_vars
    /\ WF_vars(Dequeue)
    /\ WF_vars(Handle)

\* ------------------------------------------------------------ properties
Handled == last.outcome \in {"done", "raised"}

InLedger(ts) == \E p \in processed_messages : p.message_ts = ts

LinkedBy(ts, qid) ==
    {a \in answers : a.message_ts = ts /\ a.question_id = qid}

PairsFor(qtext, atext, channel) ==
    {p \in qa_pairs : p.question = qtext /\ p.answer = atext /\ p.channel = channel}

\* the Questions among ids that stem from messages sent before the last one
Earlier(ids) ==
    {q.id : q \in {r \in questions : r.id \in ids /\ r.message_ts < last.msg.ts}}

OpenIds(channel) == {q.id : q \in Unanswered(Db, channel)}

\* C1: once a message identity is in the ledger, the worker iteration that
\* handles another copy of it makes no Oracle call and leaves every Store
\* table, every context buffer and the user cache as they were.
C1_ReprocessingIsNoOp ==
    [][ (/\ worker.pc = "sleeping"
         /\ worker'.pc = "idle"
         /\ InLedger(worker.msg.ts))
        => (/\ UNCHANGED <<tables, message_buffers, user_cache>>
            /\ last'.oracle_calls = 0) ]_vars

\* C1 witness: a second copy of a question message was dequeued and skipped;
\* one Question row and one ledger row exist for it.
C1_Witness ==
    /\ last.outcome = "skipped"
    /\ Cardinality({q \in questions : q.message_ts = last.msg.ts}) = 1
    /\ Cardinality({p \in processed_messages : p.message_ts = last.msg.ts}) = 1

\* C2: store_question called with a message identity that already has a row
\* returns that row's identity and leaves exactly one row for the identity.
C2_StoreQuestionIdempotent ==
    (call.op = "store_question" /\ call.prior # {})
        => /\ \A r \in call.prior : call.ret = r.id
           /\ Cardinality({q \in questions : q.message_ts = call.message_ts}) = 1

\* C3: every Question of an earlier message that was open in the message's
\* channel and that the Oracle judged answered (is_answer, confidence >= threshold) is closed
\* after the message was handled, with exactly one Answer linked to it and
\* exactly one QAPair of its text and the message's text.
C3_ClosureCorrectness ==
    Handled =>
        \A q \in questions :
            (q.id \in last.accepted /\ q.message_ts < last.msg.ts) =>
                /\ q.id \notin OpenIds(last.msg.channel_id)
                /\ Cardinality({a \in answers : a.question_id = q.id}) = 1
                /\ Cardinality(PairsFor(q.text, last.msg.text, last.msg.channel_id)) = 1

\* C4: a message judged to answer two or more distinct open Questions of its
\* channel (Questions of earlier messages) leaves one Answer row linked to each of them and a QAPair for
\* each, and all of them are closed.
C4_MultiAnswerMessage ==
    (Handled /\ Cardinality(Earlier(last.accepted)) >= 2) =>
        \A q \in questions :
            q.id \in Earlier(last.accepted) =>
                /\ LinkedBy(last.msg.ts, q.id) # {}
                /\ PairsFor(q.text, last.msg.text, last.msg.channel_id) # {}
                /\ q.id \notin OpenIds(last.msg.channel_id)

\* C5: no two QAPair rows share (question, answer, channel), and a
\* store_qa_pair of a triple already present leaves the row count unchanged.
C5_QAPairUnique ==
    /\ \A p1, p2 \in qa_pairs :
          (p1.question = p2.question /\ p1.answer = p2.answer
              /\ p1.channel = p2.channel) => p1 = p2
    /\ (call.op = "store_qa_pair" /\ call.prior # {})
          => Cardinality(qa_pairs) = call.rows_before

\* C6: an accepted answer links to an open Question of any age, also one
\* that is ten days older than the answering message, while the clustering
\* query never returns a Question older than the 72-hour window.
C6_LookbackAsymmetry ==
    /\ Handled =>
          \A q \in questions :
              (q.id \in last.accepted /\ last.msg.ts - q.timestamp >= 240)
                  => LinkedBy(last.msg.ts, q.id) # {}
    /\ \A c \in Channels :
          LET rows == find_recent_questions(Db, backend, c, CLUSTER_LOOKBACK_HOURS, now).rows
          IN  \A i \in 1..Len(rows) : rows[i].timestamp > now - CLUSTER_LOOKBACK_HOURS

\* C7: a question message for which the similarity classifier reported an
\* existing Question with similarity >= 0.8 leaves that Question with a
\* cluster history whose newest entry is the message's text, and adds no
\* Question row.
C7_Clustering ==
    (Handled /\ last.is_question /\ last.similar_id # None) =>
        \A q \in questions :
            q.id = last.similar_id =>
                /\ Len(q.clustered_questions) >= 1
                /\ q.clustered_questions[Len(q.clustered_questions)] = last.msg.text

\* C8: after a message was handled, it is linked as an Answer to a Question
\* of an earlier message exactly if the Oracle judged is_answer with a confidence at or above the
\* threshold for that Question, which was open; a Question it was not
\* accepted for has no Answer and no QAPair from this pass and stays open.
C8_ThresholdInclusive ==
    Handled =>
        \A q \in questions :
            (q.channel_id = last.msg.channel_id /\ q.message_ts < last.msg.ts) =>
                (LinkedBy(last.msg.ts, q.id) # {} <=> q.id \in last.accepted)

\* C9: is_message_processed(m) is false for an identity never marked; after
\* mark_message_processed(m, c) it is true, stays true, and the ledger holds
\* exactly one row for m; a repeated call changes nothing.  On every backend.
C9_LedgerRoundTrip ==
    /\ call.op = "mark_message_processed" =>
          /\ is_message_processed(Db, backend, call.message_ts)
          /\ Cardinality({p \in processed_messages : p.message_ts = call.message_ts}) = 1
          /\ call.prior # {} => Cardinality(processed_messages) = call.rows_before
    /\ \A ts \in 0..2 : is_message_processed(Db, backend, ts) <=> InLedger(ts)

\* C10: store_answer called with a message identity that already has an
\* Answer row returns that row's identity and leaves the row, with its
\* Question link, as it was; no second row appears.
C10_StoreAnswerIdempotent ==
    (call.op = "store_answer" /\ call.prior # {})
        => /\ \A r \in call.prior : call.ret = r.id /\ r \in answers
           /\ Cardinality(answers) = call.rows_before

\* C11: when the handling of a dequeued message that was not in the ledger
\* finishes, the ledger holds the message's identity, whatever the Oracle
\* answered.
C11_LedgerWriteAlways ==
    Handled => InLedger(last.msg.ts)

\* C12: a question classification whose JSON lacks a field is treated as a
\* negative classification: the handling completes without an error and no
\* Question row stems from the message.
C12_MalformedIsNegative ==
    (Handled /\ last.malformed) =>
        /\ last.outcome = "done"
        /\ ~ \E q \in questions : q.message_ts = last.msg.ts

\* C13: after an iteration that ended in an exception (a failing Store among
\* the causes) the worker is still alive: the messages waiting in the queue
\* are dequeued and handled, so the worker gets back to an empty queue.
C13_WorkerSurvives ==
    (last.outcome = "raised") ~> (processing_queue = <<>> /\ worker.pc = "idle")

\* C13 witness: the Store failed under the handler while a later message
\* was waiting in the queue.
C13_Witness ==
    /\ last.outcome = "raised"
    /\ last.oracle_calls = 0
    /\ worker.pc = "idle"
    /\ processing_queue # <<>>

\* C14: under every interleaving of the listener and the worker, a step
\* either leaves the queue alone, or appends one entry at its tail without
\* touching the worker, or removes the oldest entry and hands exactly that
\* entry to the idle worker; and the message the Correlator handles is the
\* one the worker dequeued.  So entries are dequeued once each, in the order
\* they were enqueued, and none is lost or duplicated.
C14_FifoHandOff ==
    [][ /\ \/ /\ processing_queue' = processing_queue
              /\ worker'.msg \in {worker.msg, NoMsg}
           \/ /\ Len(processing_queue') = Len(processing_queue) + 1
              /\ SubSeq(processing_queue', 1, Len(processing_queue)) = processing_queue
              /\ worker' = worker
           \/ /\ processing_queue # <<>>
              /\ processing_queue' = Tail(processing_queue)
              /\ worker.pc = "idle"
              /\ worker' = [pc |-> "sleeping", msg |-> Head(processing_queue)]
        /\ (worker.pc = "sleeping" /\ worker'.pc = "idle") => last'.msg = worker.msg
      ]_vars

\* C14 witness: two messages were enqueued; the earlier one is with the
\* worker while the later one waits.
C14_Witness ==
    /\ worker.pc = "sleeping"
    /\ processing_queue # <<>>
    /\ worker.msg.ts < processing_queue[1].ts

\* C15: once shutdown was requested, the worker does not end while messages
\* are still queued: it goes on dequeuing and handling them.
C15_ShutdownDrain ==
    [][ (~ running /\ worker.pc = "idle" /\ processing_queue # <<>>)
            => worker'.pc # "exited" ]_vars

\* C16: a Question that has a linked Answer is not returned by the open
\* question query after any later Store call: no step takes a Question from
\* closed back to open.
C16_NeverReopens ==
    [][ \A c \in Channels :
          \A q \in questions :
             (q.channel_id = c /\ q.id \notin OpenIds(c)) => q.id \notin OpenIds(c)'
      ]_vars

\* C17: every Answer that is linked to a Question has that Question's
\* channel.
C17_ChannelConsistency ==
    \A a \in answers :
        \A q \in questions :
            a.question_id = q.id => a.channel_id = q.channel_id

\* C17 witness: a message was linked as the Answer to an earlier Question of
\* its channel while a Question of the other channel was open.
C17_Witness ==
    /\ last.outcome = "done"
    /\ \E q \in questions : /\ q.message_ts < last.msg.ts
                             /\ LinkedBy(last.msg.ts, q.id) # {}
    /\ \E c \in Channels \ {last.msg.channel_id} : OpenIds(c) # {}

C19_IngestionFrame ==
    [][ (events' # events) =>
          /\ UNCHANGED <<tables, message_buffers, user_cache, last, worker, running>>
          /\ \/ processing_queue' = processing_queue
             \/ /\ Len(processing_queue') = Len(processing_queue) + 1
                /\ SubSeq(processing_queue', 1, Len(processing_queue)) = processing_queue
          /\ acks' = acks + 1
          /\ events' = events + 1
      ]_vars

\* C19 witness: over a Store that holds an open Question, a message event
\* was enqueued and acknowledged and another event was acknowledged without
\* an entry, before the worker handled anything.
C19_Witness ==
    /\ acks = 2
    /\ Len(processing_queue) = 1
    /\ worker.pc = "idle"
    /\ last.outcome = "init"
    /\ OpenIds(processing_queue[1].channel_id) # {}

\* C20: every Question has at most one linked Answer.
C20_NoDoubleLinking ==
    \A q \in questions :
        Cardinality({a \in answers : a.question_id = q.id}) <= 1

\* C20 witness: a Question was closed by one message, and a later message
\* of the same channel was handled without that Question being offered to
\* its answer check.
C20_Witness ==
    /\ last.outcome = "done"
    /\ \E q \in questions :
          /\ q.channel_id = last.msg.channel_id
          /\ \E a \in answers : a.question_id = q.id /\ a.message_ts < last.msg.ts
          /\ \A i \in 1..Len(last.asked) : last.asked[i] # q.id

C22_AnswerCheckExhaustive ==
    Handled =>
        /\ {last.asked[i] : i \in 1..Len(last.asked)}
               = OpenIds(last.msg.channel_id)
                   \cup {q.id : q \in {r \in questions : LinkedBy(last.msg.ts, r.id) # {}}}
        /\ \A i, j \in 1..Len(last.asked) : last.asked[i] = last.asked[j] => i = j

C25_BuffersBounded ==
    /\ [](\A c \in Channels :
            LET buf == message_buffers[c]
                ctx == context_messages(message_buffers, c)
            IN  /\ Len(buf) <= MESSAGE_BUFFER_SIZE
                /\ \A i \in 1..Len(buf) : buf[i].channel_id = c
                /\ \A i, j \in 1..Len(buf) : i < j => buf[i].ts < buf[j].ts
                /\ Len(ctx) <= CONTEXT_MESSAGES
                /\ \A i \in 1..Len(ctx) : ctx[i] = buf[Len(buf) - Len(ctx) + i])
    /\ [][ \A c \in Channels :
             message_buffers'[c] # message_buffers[c] =>
                LET old == message_buffers[c]
                    new == message_buffers'[c]
                IN  new = Append(IF Len(old) < MESSAGE_BUFFER_SIZE THEN old ELSE Tail(old),
                                 new[Len(new)])
       ]_vars

\* C25 witness: eleven messages went to one channel, whose buffer is full
\* without the first of them, and the context is shorter than the buffer.
C25_Witness ==
    \E c \in Channels :
        /\ Len(message_buffers[c]) = MESSAGE_BUFFER_SIZE
        /\ message_buffers[c][1].ts = 2
        /\ message_buffers[c][MESSAGE_BUFFER_SIZE].ts = MESSAGE_BUFFER_SIZE + 1
        /\ Len(context_messages(message_buffers, c)) = CONTEXT_MESSAGES

\* C26: whenever a step links a new Answer to a Question, a QAPair of the
\* Question's text, the Answer's text and the channel exists afterwards, and
\* a QAPair row inserted for it carries the smaller of the Question's and the
\* Answer's confidence, so it exceeds neither.
C26_PairConfidenceIsMin ==
    [][ \A a \in answers' \ answers :
          \A q \in questions' :
             a.question_id = q.id =>
                LET same == {p \in qa_pairs' : /\ p.question = q.text
                                              /\ p.answer = a.text
                                              /\ p.channel = a.channel_id}
                IN  /\ same # {}
                    /\ \A p \in same \ qa_pairs :
                          /\ p.confidence_score <= q.confidence_score
                          /\ p.confidence_score <= a.confidence_score
                          /\ p.confidence_score \in {q.confidence_score, a.confidence_score}
      ]_vars

\* C26 witness: the last message was linked to an earlier Question whose
\* confidence (0.5) is below the Answer's (0.6), and the QAPair carries 0.5.
C26_Witness ==
    /\ last.outcome = "done"
    /\ \E q \in questions :
          /\ q.message_ts < last.msg.ts
          /\ q.confidence_score = 50
          /\ \E a \in LinkedBy(last.msg.ts, q.id) : a.confidence_score = 60
          /\ \E p \in PairsFor(q.text, last.msg.text, last.msg.channel_id) :
                p.confidence_score = 50

\* C27: after every Store operation each Answer with a question identity
\* references a Question row that exists, and the Question of a message
\* identity keeps the identity it was first given.
C27_ReferentialIntegrity ==
    [][ /\ \A a \in answers' :
              a.question_id # None => \E q \in questions' : q.id = a.question_id
        /\ \A q \in questions :
              \A r \in questions' : r.message_ts = q.message_ts => r.id = q.id
      ]_vars

C29_AbortLeavesNothing ==
    (last.outcome = "raised" /\ ~ InLedger(last.msg.ts)) =>
        /\ ~ \E q \in questions : q.message_ts = last.msg.ts
        /\ ~ \E a \in answers : a.message_ts = last.msg.ts

\* C30: while the monitor is running, a message the worker holds is
\* eventually passed to the ledger gate and there skipped or handled, every
\* queued message is eventually dequeued, and a queue that is no longer fed
\* eventually becomes empty with the worker waiting at the loop test.
C30_QueueProgress ==
    /\ [][ (worker.pc = "sleeping" /\ worker'.pc = "idle")
              => /\ last'.msg = worker.msg
                 /\ last'.outcome \in {"skipped", "done", "raised"} ]_vars
    /\ \A n \in 1..MaxQueue :
          (running /\ Len(processing_queue) = n) ~> (Len(processing_queue) < n)
    /\ (running /\ processing_queue # <<>>)
          ~> (processing_queue = <<>> /\ worker.pc = "idle")

\* C30 witness: all the events of the run were delivered and acknowledged,
\* and the worker has emptied the queue, the last message having passed the
\* gate or the handler, and is waiting at the loop test.
C30_Witness ==
    /\ running
    /\ events = MaxEvents
    /\ processing_queue = <<>>
    /\ worker.pc = "idle"
    /\ last.outcome \in {"skipped", "done"}
    /\ acks = MaxEvents

TypeOK ==
    /\ backend \in Backends
    /\ running \in BOOLEAN
    /\ worker.pc \in {"new", "idle", "sleeping", "exited"}
    /\ Len(processing_queue) <= MaxQueue
    /\ now \in 0..MaxClock

====
